---- MODULE Spec2Model ----
(***************************************************************************)
(* Model of bytesep/callbacks/violin_piano_callbacks.py:                   *)
(*   get_violin_piano_callbacks   builds the two training callbacks from   *)
(*                                the YAML config;                         *)
(*   EvaluationCallback.on_batch_end  the periodic evaluation run by the   *)
(*                                trainer at the end of every batch.       *)
(* The trainer, the file system, the separator and the SDR metric are the  *)
(* environment: the trainer advances global_step and calls the hook, the   *)
(* directories are fixed sets of file names, the metric returns any value  *)
(* of SDRValues and the separator may raise.                               *)
(***************************************************************************)
EXTENDS Integers, Sequences, FiniteSets, TLC

\* ---------------------------------------------------------------- bounds
MaxName == 2        \* audio files are named 1..MaxName (names compare as numbers)
MaxStep == 2        \* trainer.global_step ranges over 0..MaxStep
MaxCalls == 3       \* on_batch_end is invoked at most MaxCalls times
MaxFreq == 2        \* step frequencies of the config range over 1..MaxFreq

Names == 1..MaxName
SDRValues == {-1, 2}
Ranks == {0, 1}
SourceTypeLists == {<<>>, <<"violin">>, <<"piano">>, <<"violin", "piano">>}

VARIABLES
    config,               \* the parsed YAML config (read_yaml(config_yaml))
    fs,                   \* evaluation_audios_dir: which directories hold which files
    rank,                 \* rank of this process (rank_zero_only)
    callbacks,            \* the list returned by get_violin_piano_callbacks
    pc,                   \* position of the program
    err,                  \* the exception that ended the program, "" if none
    trainer_global_step,  \* trainer.global_step
    calls,                \* history: trainer.global_step at every on_batch_end call
    global_step,          \* on_batch_end local
    audio_names,          \* on_batch_end local
    n,                    \* on_batch_end local: 1-based index of the loop
    sdrs,                 \* on_batch_end local
    events,               \* the I/O and calls of the current on_batch_end invocation
    statistics_dict,      \* statistics_container, in memory
    dumped                \* statistics_container, as last dumped to statistics_path

vars == <<config, fs, rank, callbacks, pc, err, trainer_global_step, calls,
          global_step, audio_names, n, sdrs, events, statistics_dict, dumped>>

env == <<config, fs, rank>>
locals == <<global_step, audio_names, n, sdrs>>

\* ------------------------------------------------------------ pure helpers
NoPath == <<"", 0>>

\* One entry of events: a load or a separation of the file a, a scoring of the
\* reference a against the separation of b, or an append of the mean b (as
\* <<numerator, denominator>>) with <<split, steps>> a.
Event(op, a, b) == [op |-> op, a |-> a, b |-> b]

RECURSIVE add_reduce(_)
add_reduce(s) == IF s = <<>> THEN 0 ELSE s[1] + add_reduce(Tail(s))

\* np.mean(sdrs): the sum over the count, kept as an exact fraction.
\* The mean of no values is nan (den = 0).
np_sum(s) == [num |-> add_reduce(s), den |-> 1]
np_mean(s) == [num |-> add_reduce(s), den |-> Len(s)]

RECURSIVE insert(_, _)
insert(x, s) ==
    IF s = <<>> THEN <<x>>
    ELSE IF x <= s[1] THEN <<x>> \o s
    ELSE <<s[1]>> \o insert(x, Tail(s))

RECURSIVE insertion_sort(_)
insertion_sort(s) == IF s = <<>> THEN <<>> ELSE insert(s[1], insertion_sort(Tail(s)))

\* sorted(os.listdir(mixture_audios_dir))
unsorted(listing) == listing
sorted(listing) == insertion_sort(listing)

\* os.listdir returns the entries of a directory in arbitrary order.
listdir(files) ==
    {p \in [1..Cardinality(files) -> files] :
        \A i, j \in 1..Cardinality(files) : i # j => p[i] # p[j]}

\* global_step % self.evaluate_step_frequency == 0
IsDueAlways(step, freq) == TRUE
IsDueSkipZero(step, freq) == step > 0 /\ step % freq = 0
IsDue(step, freq) == step % freq = 0

\* assert len(audio_names) > 0
HasAudiosAlways(names) == Len(names) >= 0
HasAudios(names) == Len(names) > 0

\* for n, audio_name in enumerate(audio_names): the loop is over
LoopDoneEarly(i, names) == i >= Len(names)
LoopDone(i, names) == i > Len(names)

\* os.path.join(self.evaluation_audios_dir, 'mixture')
mixture_audios_dir == "mixture"

\* os.path.join(self.evaluation_audios_dir, self.target_source_type)
clean_audios_dir(self) == self.target_source_type

\* ----------------------------------------------- get_violin_piano_callbacks
SaveCheckpointsCallback(save_step_frequency) ==
    [class |-> "SaveCheckpointsCallback",
     save_step_frequency |-> save_step_frequency]

EvaluationCallback(target_source_type, sample_rate, mono, segment_samples, batch_size, evaluate_step_frequency) ==
    [class |-> "EvaluationCallback",
     target_source_type |-> target_source_type,
     sample_rate |-> sample_rate,
     mono |-> mono,
     segment_samples |-> segment_samples,
     evaluate_step_frequency |-> evaluate_step_frequency,
     separator |-> [segment_samples |-> segment_samples, batch_size |-> batch_size]]

get_violin_piano_callbacks_swapped(configs) ==
    <<SaveCheckpointsCallback(configs.train.evaluate_step_frequency),
      EvaluationCallback(configs.train.target_source_types[1],
                         configs.train.sample_rate,
                         configs.train.channels = 1,
                         configs.evaluate.segment_seconds * configs.train.sample_rate,
                         configs.evaluate.batch_size,
                         configs.train.save_step_frequency)>>

get_violin_piano_callbacks(configs) ==
    <<SaveCheckpointsCallback(configs.train.save_step_frequency),
      EvaluationCallback(configs.train.target_source_types[1],
                         configs.train.sample_rate,
                         configs.train.channels = 1,
                         configs.evaluate.segment_seconds * configs.train.sample_rate,
                         configs.evaluate.batch_size,
                         configs.train.evaluate_step_frequency)>>

\* ------------------------------------------------------ StatisticsContainer
EmptyStatistics == [train |-> <<>>, test |-> <<>>]

StatAppend(dict, steps, statistics, split) ==
    [dict EXCEPT ![split] =
        Append(@, [pesq |-> statistics.pesq, steps |-> steps])]

StatDump(dict) == dict

\* --------------------------------------------------------------------- Init
Configs ==
    {[train |-> [target_source_types |-> t,
                 channels |-> c,
                 sample_rate |-> 44100,
                 evaluate_step_frequency |-> e,
                 save_step_frequency |-> s],
      evaluate |-> [batch_size |-> 1, segment_seconds |-> d]] :
        t \in SourceTypeLists, c \in {1, 2}, e \in 1..MaxFreq, s \in 1..MaxFreq,
        d \in {1, 30}}

\* A directory of clean audios is complete or lacks one file.
CleanDirs == {Names \ missing : missing \in {m \in SUBSET Names : Cardinality(m) <= 1}}

\* The mixture directory may be missing; a missing directory holds nothing.
FileSystems ==
    {[exists |-> x, mixture |-> m, violin |-> v, piano |-> p] :
        x \in BOOLEAN, m \in SUBSET Names, v \in CleanDirs, p \in CleanDirs}

\* on_batch_end reads the target source type and evaluate_step_frequency only:
\* the training runs start from the configs that pass the assertion of
\* get_violin_piano_callbacks, with the other fields fixed.
TrainConfigs ==
    {c \in Configs :
        /\ Len(c.train.target_source_types) = 1
        /\ c.train.channels = 2
        /\ c.train.save_step_frequency = 1
        /\ c.evaluate.segment_seconds = 30}

Quiescent ==
    /\ err = ""
    /\ trainer_global_step = 0
    /\ calls = <<>>
    /\ global_step = 0
    /\ audio_names = <<>>
    /\ n = 1
    /\ sdrs = <<>>
    /\ events = <<>>
    /\ statistics_dict = EmptyStatistics
    /\ dumped = EmptyStatistics

\* The state after the callbacks are built and handed to the trainer.
Init ==
    /\ config \in TrainConfigs
    /\ fs \in {f \in FileSystems : ~f.exists => f.mixture = {}}
    /\ rank \in Ranks
    /\ callbacks = get_violin_piano_callbacks(config)
    /\ pc = "idle"
    /\ Quiescent

\* The state before get_violin_piano_callbacks is called, for any config.
InitCallbacks ==
    /\ config \in Configs
    /\ fs = [exists |-> TRUE, mixture |-> Names, violin |-> Names, piano |-> Names]
    /\ rank = 0
    /\ callbacks = <<>>
    /\ pc = "start"
    /\ Quiescent

\* ------------------------------------------------------------------ actions
self == callbacks[2]

\* get_violin_piano_callbacks, the assertion on target_source_types holding
GetCallbacks ==
    /\ pc = "start"
    /\ Len(config.train.target_source_types) = 1
    /\ callbacks' = get_violin_piano_callbacks(config)
    /\ pc' = "idle"
    /\ UNCHANGED <<env, err, trainer_global_step, calls, locals, events,
                   statistics_dict, dumped>>

\* get_violin_piano_callbacks: assert len(target_source_types) == 1 fails
GetCallbacksAssert ==
    /\ pc = "start"
    /\ Len(config.train.target_source_types) # 1
    /\ pc' = "failed"
    /\ err' = "AssertionError: target_source_types"
    /\ UNCHANGED <<env, callbacks, trainer_global_step, calls, locals, events,
                   statistics_dict, dumped>>

\* The trainer finishes an optimizer step.  It called on_batch_end for the
\* batch before; batches that only accumulate gradients call it again with
\* the same global_step.
TrainerStep ==
    /\ pc = "idle"
    /\ trainer_global_step < MaxStep
    /\ calls # <<>>
    /\ calls[Len(calls)] = trainer_global_step
    /\ trainer_global_step' = trainer_global_step + 1
    /\ UNCHANGED <<env, callbacks, pc, err, calls, locals, events,
                   statistics_dict, dumped>>

Enter ==
    /\ pc = "idle"
    /\ Len(calls) < MaxCalls
    /\ calls' = Append(calls, trainer_global_step)
    /\ UNCHANGED <<env, callbacks, trainer_global_step>>

ResetLocals ==
    /\ global_step' = trainer_global_step
    /\ audio_names' = <<>>
    /\ n' = 1
    /\ sdrs' = <<>>

\* @rank_zero_only: on another rank the body is not run
OnBatchEndOtherRank ==
    /\ Enter
    /\ rank # 0
    /\ UNCHANGED <<pc, err, locals, events, statistics_dict, dumped>>

\* on_batch_end, global_step not due
OnBatchEndSkip ==
    /\ Enter
    /\ rank = 0
    /\ ~IsDue(trainer_global_step, self.evaluate_step_frequency)
    /\ ResetLocals
    /\ events' = <<>>
    /\ UNCHANGED <<pc, err, statistics_dict, dumped>>

\* on_batch_end, os.listdir raises: the mixture directory is missing
OnBatchEndNoDir ==
    /\ Enter
    /\ rank = 0
    /\ IsDue(trainer_global_step, self.evaluate_step_frequency)
    /\ ~fs.exists
    /\ ResetLocals
    /\ events' = <<Event("listdir", <<mixture_audios_dir, 0>>, NoPath)>>
    /\ pc' = "failed"
    /\ err' = "FileNotFoundError"
    /\ UNCHANGED <<statistics_dict, dumped>>

\* on_batch_end, the assertion on audio_names fails
OnBatchEndAssert ==
    /\ Enter
    /\ rank = 0
    /\ IsDue(trainer_global_step, self.evaluate_step_frequency)
    /\ fs.exists
    /\ \E listing \in listdir(fs.mixture) :
        /\ ~HasAudios(sorted(listing))
        /\ global_step' = trainer_global_step
        /\ audio_names' = sorted(listing)
        /\ n' = 1
        /\ sdrs' = <<>>
    /\ events' = <<Event("listdir", <<mixture_audios_dir, 0>>, NoPath)>>
    /\ pc' = "failed"
    /\ err' = "AssertionError: does not contain audios for evaluation"
    /\ UNCHANGED <<statistics_dict, dumped>>

\* on_batch_end, lines up to sdrs = []
OnBatchEndBegin ==
    /\ Enter
    /\ rank = 0
    /\ IsDue(trainer_global_step, self.evaluate_step_frequency)
    /\ fs.exists
    /\ \E listing \in listdir(fs.mixture) :
        /\ HasAudios(sorted(listing))
        /\ global_step' = trainer_global_step
        /\ audio_names' = sorted(listing)
        /\ n' = 1
        /\ sdrs' = <<>>
    /\ events' = <<Event("listdir", <<mixture_audios_dir, 0>>, NoPath)>>
    /\ pc' = "loop"
    /\ UNCHANGED <<err, statistics_dict, dumped>>

mixture_path == <<mixture_audios_dir, audio_names[n]>>
clean_path == <<clean_audios_dir(self), audio_names[n]>>

InLoop ==
    /\ pc = "loop"
    /\ ~LoopDone(n, audio_names)

\* one iteration: librosa cannot load the clean file
LoopCleanMissing ==
    /\ InLoop
    /\ clean_path[2] \notin fs[clean_path[1]]
    /\ events' = events \o <<Event("load", mixture_path, NoPath),
                             Event("load", clean_path, NoPath)>>
    /\ pc' = "failed"
    /\ err' = "FileNotFoundError"
    /\ UNCHANGED <<env, callbacks, trainer_global_step, calls, locals,
                   statistics_dict, dumped>>

\* one iteration: the separator raises
LoopSeparateRaises ==
    /\ InLoop
    /\ clean_path[2] \in fs[clean_path[1]]
    /\ events' = events \o <<Event("load", mixture_path, NoPath),
                             Event("load", clean_path, NoPath),
                             Event("separate", mixture_path, NoPath)>>
    /\ pc' = "failed"
    /\ err' = "RuntimeError"
    /\ UNCHANGED <<env, callbacks, trainer_global_step, calls, locals,
                   statistics_dict, dumped>>

\* one iteration: load both files, separate, score, collect the SDR
LoopBody ==
    /\ InLoop
    /\ clean_path[2] \in fs[clean_path[1]]
    /\ \E sdr \in SDRValues : sdrs' = Append(sdrs, sdr)
    /\ events' = events \o <<Event("load", mixture_path, NoPath),
                             Event("load", clean_path, NoPath),
                             Event("separate", mixture_path, NoPath),
                             Event("calculate_sdr", clean_path, mixture_path)>>
    /\ n' = n + 1
    /\ UNCHANGED <<env, callbacks, pc, err, trainer_global_step, calls,
                   global_step, audio_names, statistics_dict, dumped>>

\* statistics = {"pesq": np.mean(sdrs)}; statistics_container.append(...)
StatisticsAppend ==
    /\ pc = "loop"
    /\ LoopDone(n, audio_names)
    /\ LET statistics == [pesq |-> np_mean(sdrs)]
       IN  /\ statistics_dict' =
                 StatAppend(statistics_dict, global_step, statistics, "test")
           /\ events' = Append(events,
                 Event("append", <<"test", global_step>>,
                       <<statistics.pesq.num, statistics.pesq.den>>))
    /\ pc' = "dump"
    /\ UNCHANGED <<env, callbacks, err, trainer_global_step, calls, locals, dumped>>

\* statistics_container.dump(), and on_batch_end returns: its locals are gone
StatisticsDump ==
    /\ pc = "dump"
    /\ dumped' = StatDump(statistics_dict)
    /\ events' = Append(events, Event("dump", NoPath, NoPath))
    /\ pc' = "idle"
    /\ audio_names' = <<>>
    /\ n' = 1
    /\ sdrs' = <<>>
    /\ UNCHANGED <<env, callbacks, err, trainer_global_step, calls, global_step,
                   statistics_dict>>

Next ==
    \/ TrainerStep
    \/ OnBatchEndOtherRank
    \/ OnBatchEndSkip
    \/ OnBatchEndNoDir
    \/ OnBatchEndAssert
    \/ OnBatchEndBegin
    \/ LoopCleanMissing
    \/ LoopSeparateRaises
    \/ LoopBody
    \/ StatisticsAppend
    \/ StatisticsDump

Spec == Init /\ [][Next]_vars

NextCallbacks ==
    \/ GetCallbacks
    \/ GetCallbacksAssert

SpecCallbacks == InitCallbacks /\ [][NextCallbacks]_vars

\* =================================================================== claims
Freq == config.train.evaluate_step_frequency
Target == config.train.target_source_types[1]
Test == statistics_dict.test
TestSteps == [i \in DOMAIN Test |-> Test[i].steps]
Idx(op) == {i \in DOMAIN events : events[i].op = op}
FileOps == Idx("load") \cup Idx("separate") \cup Idx("calculate_sdr")
LastCall == calls[Len(calls)]
LastCallDue == calls # <<>> /\ LastCall % Freq = 0

RECURSIVE Total(_, _)
Total(s, k) == IF k = 0 THEN 0 ELSE Total(s, k - 1) + s[k]

DueCalls ==
    LET Due(step) == step % Freq = 0
    IN  SelectSeq(calls, Due)

\* C1: on rank zero every on_batch_end call whose global_step is a multiple of
\* evaluate_step_frequency (0 included) and that does not fail runs a full
\* evaluation and records one entry for that step: the recorded steps are the
\* steps of the due calls, call for call.
C1_PeriodicEvaluation ==
    rank = 0 =>
        /\ pc \in {"idle", "dump"} => TestSteps = DueCalls
        /\ pc = "loop" => TestSteps = SubSeq(DueCalls, 1, Len(DueCalls) - 1)
        /\ (pc = "idle" /\ LastCallDue) =>
              /\ fs.mixture # {}
              /\ Cardinality(Idx("calculate_sdr")) = Cardinality(fs.mixture)
              /\ Cardinality(Idx("append")) = 1
              /\ \A a \in Idx("append") : events[a].a = <<"test", LastCall>>
              /\ Test[Len(Test)].steps = LastCall
              /\ dumped = statistics_dict

C1_Witness ==
    /\ rank = 0
    /\ pc = "idle"
    /\ Freq = 2
    /\ calls = <<0, 1, 2>>
    /\ TestSteps = <<0, 2>>

\* C2: the value an evaluation records is the arithmetic mean of the SDRs, one
\* per file of the mixture directory, appended to the 'test' split with steps
\* equal to trainer.global_step.
C2_MeanRecorded ==
    pc = "dump" =>
        /\ Len(sdrs) = Cardinality(fs.mixture)
        /\ Len(Test) = Len(dumped.test) + 1
        /\ SubSeq(Test, 1, Len(Test) - 1) = dumped.test
        /\ statistics_dict.train = <<>>
        /\ LET call == events[Len(events)]
               e == Test[Len(Test)]
           IN  /\ call.op = "append"
               /\ call.a = <<"test", trainer_global_step>>
               /\ call.b[2] > 0
               /\ call.b[1] * Len(sdrs) = call.b[2] * Total(sdrs, Len(sdrs))
               /\ e.steps = trainer_global_step
               /\ e.pesq = [num |-> call.b[1], den |-> call.b[2]]

C2_Witness ==
    /\ pc = "dump"
    /\ sdrs = <<-1, 2>>
    /\ trainer_global_step = 1
    /\ Test[Len(Test)] = [pesq |-> [num |-> 1, den |-> 2], steps |-> 1]

\* C3: in one evaluation every file is loaded, separated and scored before
\* statistics_container.append, which is called once and before the one call
\* of statistics_container.dump; neither is called while files are processed.
C3_AppendThenDump ==
    /\ Cardinality(Idx("append")) <= 1
    /\ Cardinality(Idx("dump")) <= 1
    /\ \A f \in FileOps : \A a \in Idx("append") : f < a
    /\ \A a \in Idx("append") :
          Cardinality({i \in Idx("calculate_sdr") : i < a}) = Cardinality(fs.mixture)
    /\ \A d \in Idx("dump") : \E a \in Idx("append") : a < d
    /\ pc = "loop" /\ n <= Len(audio_names) => Idx("append") = {} /\ Idx("dump") = {}
    /\ pc = "dump" => Cardinality(Idx("append")) = 1 /\ Idx("dump") = {}
    /\ (rank = 0 /\ pc = "idle" /\ LastCallDue) =>
          /\ Len(events) >= 2
          /\ events[Len(events) - 1].op = "append"
          /\ events[Len(events)].op = "dump"

C3_Witness ==
    /\ rank = 0
    /\ pc = "idle"
    /\ LastCallDue
    /\ Cardinality(fs.mixture) = 2
    /\ Len(events) = 11
    /\ events[10].op = "append"
    /\ events[11].op = "dump"

\* C4: a due evaluation that finds the mixture directory empty fails with the
\* "does not contain audios" assertion; the separator is not invoked and the
\* statistics store is neither appended to nor dumped.
C4_EmptyDirectoryFails ==
    (rank = 0 /\ LastCallDue /\ fs.exists /\ fs.mixture = {}) =>
        /\ pc = "failed"
        /\ err = "AssertionError: does not contain audios for evaluation"
        /\ events = <<Event("listdir", <<"mixture", 0>>, NoPath)>>
        /\ statistics_dict = EmptyStatistics
        /\ dumped = EmptyStatistics

C4_Witness ==
    /\ rank = 0
    /\ LastCallDue
    /\ fs.exists
    /\ fs.mixture = {}
    /\ pc = "failed"
    /\ err = "AssertionError: does not contain audios for evaluation"

\* C5: with exactly one target source type get_violin_piano_callbacks returns
\* [SaveCheckpointsCallback, EvaluationCallback], the first with
\* train.save_step_frequency and the second with train.evaluate_step_frequency.
C5_CallbacksList ==
    /\ (pc # "start" /\ Len(config.train.target_source_types) = 1) =>
          /\ pc = "idle"
          /\ Len(callbacks) = 2
          /\ callbacks[1].class = "SaveCheckpointsCallback"
          /\ callbacks[1].save_step_frequency = config.train.save_step_frequency
          /\ callbacks[2].class = "EvaluationCallback"
          /\ callbacks[2].evaluate_step_frequency = Freq
          /\ callbacks[2].target_source_type = Target
    /\ pc = "idle" => Len(config.train.target_source_types) = 1

C5_Witness ==
    /\ pc = "idle"
    /\ Len(callbacks) = 2
    /\ config.train.save_step_frequency = 1
    /\ Freq = 2

\* C6: an on_batch_end call whose global_step is not a multiple of
\* evaluate_step_frequency changes nothing: no directory listing, no load, no
\* separation, no append and no dump.
C6_SkipChangesNothing ==
    [][(rank = 0 /\ calls' # calls /\ trainer_global_step % Freq # 0) =>
          /\ events' = <<>>
          /\ statistics_dict' = statistics_dict
          /\ dumped' = dumped
          /\ pc' = pc
          /\ err' = err
          /\ trainer_global_step' = trainer_global_step
          /\ <<config, fs, callbacks>>' = <<config, fs, callbacks>>]_vars

C6_Witness ==
    /\ rank = 0
    /\ pc = "idle"
    /\ calls = <<0, 1>>
    /\ Freq = 2
    /\ events = <<>>
    /\ Len(Test) = 1
    /\ dumped = statistics_dict

Separated == LET IsSep(e) == e.op = "separate" IN SelectSeq(events, IsSep)
Scored == LET IsScore(e) == e.op = "calculate_sdr" IN SelectSeq(events, IsScore)

\* C7: in one evaluation the separator is invoked once per file of the mixture
\* directory, in ascending order of file name; each mixture file is scored
\* against the file of the same name in the directory of the target source
\* type; as many SDRs are collected as there are mixture files.
C7_OncePerFileInOrder ==
    /\ \A i \in DOMAIN Separated :
          /\ Separated[i].a[1] = "mixture"
          /\ Separated[i].a[2] \in fs.mixture
          /\ Cardinality({x \in fs.mixture : x < Separated[i].a[2]}) = i - 1
    /\ \A i \in DOMAIN Scored :
          /\ Scored[i].b = Separated[i].a
          /\ Scored[i].a = <<Target, Scored[i].b[2]>>
    /\ pc = "loop" => Len(sdrs) = Len(Scored)
    /\ (pc = "dump" \/ (rank = 0 /\ pc = "idle" /\ LastCallDue)) =>
          /\ Len(Separated) = Cardinality(fs.mixture)
          /\ Len(Scored) = Cardinality(fs.mixture)
    /\ pc = "dump" => Len(sdrs) = Cardinality(fs.mixture)

C7_Witness ==
    /\ pc = "dump"
    /\ Target = "piano"
    /\ Len(Separated) = 2
    /\ Separated[1].a = <<"mixture", 1>>
    /\ Separated[2].a = <<"mixture", 2>>
    /\ Scored[2].a = <<"piano", 2>>
    /\ Len(sdrs) = 2

====
